---- MODULE Spec2Model ----
(***************************************************************************)
(* Model of src/analysis.py: main() loads a store GeoPackage, downloads    *)
(* ACS income polygons, buffers the stores by 3 miles, joins polygons to   *)
(* buffers, averages an income field per buffer, keeps the high-income     *)
(* buffers and hands two layers to a Kepler.gl map.                        *)
(*                                                                         *)
(* main() is a straight-line script; each action below is one stage of it  *)
(* and pc is the position of the run in main().                            *)
(***************************************************************************)
EXTENDS Integers, Sequences, FiniteSets, TLC

\* ---------------------------------------------------------------- bounds
MaxStores == 2
MaxTracts == 2

\* ------------------------------------------------------ program constants
Threshold == 100000

\* ------------------------------------------------------------ CRS tags
NoCrs == "None"
WGS84 == "EPSG:4326"
WebMercator == "EPSG:3857"
OtherCrs == "EPSG:26918"
StoreFileCrs == {NoCrs, WGS84, OtherCrs}

\* ------------------------------------------------- numbers (float cells)
\* A float cell: NaN, or the rational num/den (den > 0).
NaN == [nan |-> TRUE, num |-> 0, den |-> 1]
Num(v) == [nan |-> FALSE, num |-> v, den |-> 1]
Ratio(s, c) == [nan |-> FALSE, num |-> s, den |-> c]
IsNaN(x) == x.nan
\* x >= t for a float cell x and an integer t; any comparison with NaN is False.
GreaterEq(x, t) == ~x.nan /\ x.num >= t * x.den
\* x = v for a float cell x and an integer v
EqualsInt(x, v) == ~x.nan /\ x.num = v * x.den

\* The attribute values a tract can carry in its income columns.
IncomeValues == {NaN, Num(80000), Num(120000)}

\* The features are numbered in nondecreasing order of their value (NaN first):
\* the intersects relation is drawn freely, so every other numbering of the
\* same collection is a permutation of one that is drawn.
Rank(x) == IF x.nan THEN 0 ELSE x.num
Ordered(v) == \A i, j \in DOMAIN v : i < j => Rank(v[i]) <= Rank(v[j])

\* ---------------------------------------------------------- columns
\* A column: its name, the suffix sjoin gave it, its dtype and the table it
\* comes from.
Col(name, dtype, from) == [name |-> name, sfx |-> "", dtype |-> dtype, from |-> from]

\* Attribute columns of the downloaded polygon table (without geometry).
IncomeLayouts ==
    { << Col("OBJECTID", "number", "income"), Col("B19053_001E", "number", "income"),
         Col("B19053_001M", "number", "income") >>,
      << Col("NAME", "object", "income"), Col("OBJECTID", "number", "income"),
         Col("B19049_001E", "number", "income") >>,
      << Col("NAME", "object", "income") >>,
      << Col("NAME", "object", "income"), Col("MedianIncome", "number", "income") >> }

\* Attribute columns of the stores file (without geometry).
StoreLayouts ==
    { << Col("store_id", "number", "stores"), Col("city", "object", "stores") >>,
      << Col("city", "object", "stores"), Col("MedianIncome", "number", "stores") >> }

\* income_field = None
NoField == [name |-> "None", sfx |-> ""]

Null == [rows |-> {}, cols |-> << >>, geoms |-> {}, active |-> "", crs |-> NoCrs,
         coords |-> NoCrs]

VARIABLES
    pc,                 \* position in main()
    gpkg_filename,      \* result of select_file()
    gdf_stores,         \* stores table
    gdf_income,         \* polygon table
    values,             \* income attribute value of every polygon
    gdf_stores_proj,
    gdf_income_proj,
    gdf_buffers,
    bufferedCrs,        \* CRS tag of the collection .buffer() was applied to
    joinCrs,            \* CRS tags of the two operands of sjoin
    joined,             \* rows of the join: pairs <<polygon, buffer>>
    joined_columns,
    income_field,
    avg_income,         \* rows [index_right, mean, count]
    merged,             \* rows of gdf_buffers after the merge
    high_income_buffers,
    layers,             \* add_data calls received by the map
    saved,              \* save_to_html wrote the dashboard
    out,                \* the notes printed about the run's exceptional paths
    fetch               \* outcome of the request to the ArcGIS service

vars == << pc, gpkg_filename, gdf_stores, gdf_income, values, gdf_stores_proj,
           gdf_income_proj, gdf_buffers, bufferedCrs, joinCrs, joined,
           joined_columns, income_field, avg_income, merged,
           high_income_buffers, layers, saved, out, fetch >>

\* ------------------------------------------------------------- helpers
Range(s) == { s[i] : i \in DOMAIN s }

\* The ids 0..n-1 of a table of n rows (a pandas RangeIndex).
RangeIndex(n) == 0 .. (n - 1)

\* The ids of a finite set of integers in increasing order.
RECURSIVE Sorted(_)
Sorted(S) ==
    IF S = {} THEN << >>
    ELSE LET m == CHOOSE x \in S : \A y \in S : x <= y
         IN << m >> \o Sorted(S \ {m})

\* GeoDataFrame.set_crs: tags the active geometry, coordinates untouched.
SetCrs(df, crs) == [df EXCEPT !.crs = crs]

\* GeoDataFrame.to_crs: transforms the coordinates of the active geometry
\* column from the tagged CRS and tags the result.  coords is the CRS the
\* coordinate numbers are known to be expressed in (NoCrs: not known).
ToCrs(df, crs) ==
    [df EXCEPT !.crs = crs,
               !.coords = IF df.coords = df.crs THEN crs ELSE df.coords]

\* ------------------------------------------------------------- Init
Init ==
    /\ pc = "select_file"
    /\ gpkg_filename = ""
    /\ gdf_stores = Null
    /\ gdf_income = Null
    /\ values = << >>
    /\ gdf_stores_proj = Null
    /\ gdf_income_proj = Null
    /\ gdf_buffers = Null
    /\ bufferedCrs = NoCrs
    /\ joinCrs = << NoCrs, NoCrs >>
    /\ joined = {}
    /\ joined_columns = << >>
    /\ income_field = NoField
    /\ avg_income = {}
    /\ merged = << >>
    /\ high_income_buffers = << >>
    /\ layers = << >>
    /\ saved = FALSE
    /\ out = << >>
    /\ fetch = "none"

\* --------------------------------------------------- lines 24-29
SelectFile ==
    /\ pc = "select_file"
    /\ \E f \in {"", "stores.gpkg"} :
         /\ gpkg_filename' = f
         /\ IF f = ""
            THEN /\ out' = Append(out, "No file selected, exiting.")
                 /\ pc' = "returned"
            ELSE /\ out' = out
                 /\ pc' = "read_file"
    /\ UNCHANGED << gdf_stores, gdf_income, values, gdf_stores_proj,
                    gdf_income_proj, gdf_buffers, bufferedCrs, joinCrs, joined,
                    joined_columns, income_field, avg_income, merged,
                    high_income_buffers, layers, saved, fetch >>

\* --------------------------------------------------- line 32
\* gpd.read_file: any number of stores, any attribute layout, any CRS.
ReadFile ==
    /\ pc = "read_file"
    /\ \E n \in 0 .. MaxStores, crs \in StoreFileCrs, lay \in StoreLayouts :
         gdf_stores' = [rows |-> RangeIndex(n), cols |-> lay,
                        geoms |-> {"geometry"}, active |-> "geometry",
                        crs |-> crs, coords |-> crs]
    /\ pc' = "download"
    /\ UNCHANGED << gpkg_filename, gdf_income, values, gdf_stores_proj,
                    gdf_income_proj, gdf_buffers, bufferedCrs, joinCrs, joined,
                    joined_columns, income_field, avg_income, merged,
                    high_income_buffers, layers, saved, out, fetch >>

\* --------------------------------------------------- lines 44-55
\* The except clause without its return: the run goes on.
OnRequestExceptionNoReturn ==
    /\ out' = Append(out, "Error downloading data")
    /\ pc' = "ensure_crs"

\* What the except clause of the request does.
OnRequestException ==
    /\ out' = Append(out, "Error downloading data")
    /\ pc' = "returned"

\* requests.get / raise_for_status / json, then from_features and set_crs.
Download ==
    /\ pc = "download"
    /\ \/ /\ \E e \in {"transport_error", "http_error"} : fetch' = e
          /\ OnRequestException
          /\ UNCHANGED << gdf_income, values >>
       \/ /\ fetch' = "ok"
          /\ \E k \in 1 .. MaxTracts, lay \in IncomeLayouts :
               /\ gdf_income' = [rows |-> RangeIndex(k), cols |-> lay,
                                 geoms |-> {"geometry"}, active |-> "geometry",
                                 crs |-> WGS84, coords |-> WGS84]
               /\ \E v \in [RangeIndex(k) -> IncomeValues] :
                    /\ Ordered(v)
                    /\ values' = v
          /\ out' = out
          /\ pc' = "ensure_crs"
       \/ \* an empty feature list: from_features builds a table without a
          \* geometry column and set_crs raises on it, or (library version)
          \* an empty table with a geometry column
          /\ fetch' = "ok"
          /\ values' = << >>
          /\ \E raises \in BOOLEAN :
               IF raises
               THEN /\ gdf_income' = [Null EXCEPT !.active = "geometry"]
                    /\ pc' = "raised"
               ELSE /\ gdf_income' = [rows |-> {}, cols |-> << >>,
                                      geoms |-> {"geometry"}, active |-> "geometry",
                                      crs |-> WGS84, coords |-> WGS84]
                    /\ pc' = "ensure_crs"
          /\ out' = out
    /\ UNCHANGED << gpkg_filename, gdf_stores, gdf_stores_proj,
                    gdf_income_proj, gdf_buffers, bufferedCrs, joinCrs, joined,
                    joined_columns, income_field, avg_income, merged,
                    high_income_buffers, layers, saved >>

\* --------------------------------------------------- lines 58-64
AssignDefaultCrs(df) ==
    IF df.crs = NoCrs THEN SetCrs(df, WGS84) ELSE df

\* Aligning by overriding the tag instead of transforming.
AlignCrsRetag(df, target) ==
    IF df.crs # target THEN SetCrs(df, target) ELSE df

AlignCrs(df, target) ==
    IF df.crs # target THEN ToCrs(df, target) ELSE df

EnsureCrs ==
    /\ pc = "ensure_crs"
    /\ LET tagged == AssignDefaultCrs(gdf_stores)
       IN IF tagged.crs # gdf_income.crs /\ tagged.crs = NoCrs
          THEN \* to_crs of a table that carries no CRS raises ValueError
               /\ gdf_stores' = tagged
               /\ pc' = "raised"
          ELSE /\ gdf_stores' = AlignCrs(tagged, gdf_income.crs)
               /\ pc' = "project"
    /\ UNCHANGED << gpkg_filename, gdf_income, values, gdf_stores_proj,
                    gdf_income_proj, gdf_buffers, bufferedCrs, joinCrs, joined,
                    joined_columns, income_field, avg_income, merged,
                    high_income_buffers, layers, saved, out, fetch >>

\* --------------------------------------------------- lines 67-68
\* The stores left in geographic coordinates.
ProjectStoresSkipped(df) == df

ProjectStores(df) == ToCrs(df, WebMercator)

Project ==
    /\ pc = "project"
    /\ gdf_stores_proj' = ProjectStores(gdf_stores)
    /\ gdf_income_proj' = ToCrs(gdf_income, WebMercator)
    /\ pc' = "buffer"
    /\ UNCHANGED << gpkg_filename, gdf_stores, gdf_income, values,
                    gdf_buffers, bufferedCrs, joinCrs, joined,
                    joined_columns, income_field, avg_income, merged,
                    high_income_buffers, layers, saved, out, fetch >>

\* --------------------------------------------------- lines 71-75
\* gdf_stores_proj['buffer_3mi'] = ...: a second geometry column.
WithBufferColumn(df) == [df EXCEPT !.geoms = @ \cup {"buffer_3mi"}]

\* GeoDataFrame(df.drop(columns='geometry'), geometry='buffer_3mi', crs=df.crs)
BuffersOf(df) ==
    [df EXCEPT !.geoms = @ \ {"geometry"}, !.active = "buffer_3mi"]

Buffer ==
    /\ pc = "buffer"
    /\ bufferedCrs' = gdf_stores_proj.crs
    /\ gdf_stores_proj' = WithBufferColumn(gdf_stores_proj)
    /\ gdf_buffers' = BuffersOf(WithBufferColumn(gdf_stores_proj))
    /\ pc' = "sjoin"
    /\ UNCHANGED << gpkg_filename, gdf_stores, gdf_income, values,
                    gdf_income_proj, joinCrs, joined,
                    joined_columns, income_field, avg_income, merged,
                    high_income_buffers, layers, saved, out, fetch >>

\* --------------------------------------------------- line 78
\* Columns of sjoin's result: the left attribute columns, index_right, the
\* right attribute columns; a name both sides carry gets _left / _right.
\* (The left geometry column, neither numeric nor a candidate name, is left out.)
Names(cols) == { cols[i].name : i \in DOMAIN cols }

Suffixed(cols, other, sfx) ==
    [i \in DOMAIN cols |->
        IF cols[i].name \in Names(other) THEN [cols[i] EXCEPT !.sfx = sfx]
        ELSE cols[i]]

JoinedColumns(left, right) ==
    Suffixed(left, right, "_left")
    \o << Col("index_right", "number", "join") >>
    \o Suffixed(right, left, "_right")

\* gpd.sjoin(gdf_income_proj, gdf_buffers, how='inner', predicate='intersects'):
\* one row per (polygon, buffer) pair whose geometries intersect.
SpatialJoin ==
    /\ pc = "sjoin"
    /\ joinCrs' = << gdf_income_proj.crs, gdf_buffers.crs >>
    /\ \E intersects \in SUBSET (gdf_income_proj.rows \X gdf_buffers.rows) :
         joined' = intersects
    /\ joined_columns' = JoinedColumns(gdf_income_proj.cols, gdf_buffers.cols)
    /\ pc' = "select_field"
    /\ UNCHANGED << gpkg_filename, gdf_stores, gdf_income, values,
                    gdf_stores_proj, gdf_income_proj, gdf_buffers, bufferedCrs,
                    income_field, avg_income, merged,
                    high_income_buffers, layers, saved, out, fetch >>

\* --------------------------------------------------- lines 81-94
possible_fields ==
    << "B19053_001M", "B19053_001E", "MedianIncome", "MEDIAN_INCOME", "MedInc" >>

\* field in joined.columns
InColumns(field, cols) ==
    \E i \in DOMAIN cols : cols[i].name = field /\ cols[i].sfx = ""

\* The first column that is a candidate, in column order.
FirstPresentByColumn(fields, cols) ==
    LET hits == { i \in DOMAIN cols : cols[i].name \in Range(fields) /\ cols[i].sfx = "" }
    IN IF hits = {} THEN NoField
       ELSE [name |-> cols[CHOOSE i \in hits : \A j \in hits : i <= j].name, sfx |-> ""]

\* The loop of lines 86-89: the first candidate that is a column, else None.
RECURSIVE FirstPresent(_, _)
FirstPresent(fields, cols) ==
    IF fields = << >> THEN NoField
    ELSE IF InColumns(Head(fields), cols)
         THEN [name |-> Head(fields), sfx |-> ""]
         ELSE FirstPresent(Tail(fields), cols)

\* joined.select_dtypes(include=['number']).columns
NumericCols(cols) == SelectSeq(cols, LAMBDA c : c.dtype = "number")

\* Lines 91-93: the fallback.
Fallback(cols) ==
    IF Len(NumericCols(cols)) > 0
    THEN [name |-> NumericCols(cols)[1].name, sfx |-> NumericCols(cols)[1].sfx]
    ELSE [name |-> "B19053_001M", sfx |-> ""]

SelectField ==
    /\ pc = "select_field"
    /\ LET found == FirstPresent(possible_fields, joined_columns)
       IN IF found = NoField
          THEN /\ income_field' = Fallback(joined_columns)
               /\ out' = Append(out, "Using field")
          ELSE /\ income_field' = found
               /\ out' = out
    /\ pc' = "aggregate"
    /\ UNCHANGED << gpkg_filename, gdf_stores, gdf_income, values,
                    gdf_stores_proj, gdf_income_proj, gdf_buffers, bufferedCrs,
                    joinCrs, joined, joined_columns, avg_income, merged,
                    high_income_buffers, layers, saved, fetch >>

\* --------------------------------------------------- lines 96-100
\* The column of the joined table a field names.
ColumnOf(field, cols) ==
    CHOOSE i \in DOMAIN cols : cols[i].name = field.name /\ cols[i].sfx = field.sfx

HasColumn(field, cols) ==
    \E i \in DOMAIN cols : cols[i].name = field.name /\ cols[i].sfx = field.sfx

\* The cell of column c in the joined row of polygon p and buffer b.
Cell(c, p, b, vals) ==
    CASE c.from = "join" -> Num(b)
      [] c.from = "stores" ->
            IF c.name = "store_id" THEN Num(100 + b) ELSE Num(90000 + 20000 * b)
      [] OTHER -> IF c.name = "OBJECTID" THEN Num(p) ELSE vals[p]

RECURSIVE SumCells(_, _, _)
SumCells(rows, c, vals) ==
    IF rows = {} THEN 0
    ELSE LET r == CHOOSE x \in rows : TRUE
         IN Cell(c, r[1], r[2], vals).num + SumCells(rows \ {r}, c, vals)

\* pandas 'count': the cells of the group that are not NaN.
GroupCount(group, c, vals) ==
    Cardinality({ r \in group : ~IsNaN(Cell(c, r[1], r[2], vals)) })

\* pandas 'mean': the mean of the cells that are not NaN, NaN when there is none.
GroupMean(group, c, vals) ==
    LET valid == { r \in group : ~IsNaN(Cell(c, r[1], r[2], vals)) }
    IN IF valid = {} THEN NaN
       ELSE Ratio(SumCells(valid, c, vals), Cardinality(valid))

\* joined.groupby('index_right')[field].agg(['mean', 'count']).reset_index()
GroupBy(rows, c, vals) ==
    { [index_right |-> b,
       avg_median_income_3mi |-> GroupMean({ r \in rows : r[2] = b }, c, vals),
       tract_count |-> GroupCount({ r \in rows : r[2] = b }, c, vals)]
      : b \in { r[2] : r \in rows } }

\* avg_income[avg_income['tract_count'] > 0]
PositiveCount(tbl) == { r \in tbl : r.tract_count > 0 }

\* The merge of line 100.
RECURSIVE AsRows(_, _)
AsRows(b, matches) ==
    IF matches = {} THEN << >>
    ELSE LET m == CHOOSE x \in matches : TRUE
         IN << [id |-> b, avg_median_income_3mi |-> m.avg_median_income_3mi,
                tract_count |-> Num(m.tract_count)] >>
            \o AsRows(b, matches \ {m})

\* The rows a left row b gets in a how='inner' merge.
LeftRowsInner(b, right) ==
    AsRows(b, { r \in right : r.index_right = b })

\* The rows a left row b gets in a how='left' merge: one per right row of the
\* same key, and one of missing values when there is none.
LeftRows(b, right) ==
    LET matches == { r \in right : r.index_right = b }
    IN IF matches = {}
       THEN << [id |-> b, avg_median_income_3mi |-> NaN, tract_count |-> NaN] >>
       ELSE AsRows(b, matches)

RECURSIVE MergeLeft(_, _)
MergeLeft(ids, right) ==
    IF ids = << >> THEN << >>
    ELSE LeftRows(Head(ids), right) \o MergeLeft(Tail(ids), right)

\* Lines 96-100: groupby, the tract_count filter and the merge onto the buffers.
Aggregate ==
    /\ pc = "aggregate"
    /\ IF HasColumn(income_field, joined_columns)
       THEN LET stats == PositiveCount(GroupBy(joined,
                             joined_columns[ColumnOf(income_field, joined_columns)],
                             values))
            IN /\ avg_income' = stats
               /\ merged' = MergeLeft(Sorted(gdf_buffers.rows), stats)
               /\ pc' = "filter"
       ELSE \* KeyError: the default name is not a column
            /\ UNCHANGED << avg_income, merged >>
            /\ pc' = "raised"
    /\ UNCHANGED << gpkg_filename, gdf_stores, gdf_income, values,
                    gdf_stores_proj, gdf_income_proj, gdf_buffers, bufferedCrs,
                    joinCrs, joined, joined_columns, income_field,
                    high_income_buffers, layers, saved, out, fetch >>

\* --------------------------------------------------- lines 103-107
\* gdf_buffers['avg_median_income_3mi'].fillna(0)
FillNa(rows) ==
    [i \in DOMAIN rows |->
        IF IsNaN(rows[i].avg_median_income_3mi)
        THEN [rows[i] EXCEPT !.avg_median_income_3mi = Num(0)]
        ELSE rows[i]]

\* The filter with > in place of >=.
HighIncomeStrict(rows, t) ==
    SelectSeq(rows, LAMBDA r : ~IsNaN(r.avg_median_income_3mi)
                               /\ r.avg_median_income_3mi.num
                                  > t * r.avg_median_income_3mi.den)

\* gdf_buffers[gdf_buffers['avg_median_income_3mi'] >= t]
HighIncome(rows, t) ==
    SelectSeq(rows, LAMBDA r : GreaterEq(r.avg_median_income_3mi, t))

Filter ==
    /\ pc = "filter"
    /\ merged' = FillNa(merged)
    /\ high_income_buffers' = HighIncome(FillNa(merged), Threshold)
    /\ pc' = "dashboard"
    /\ UNCHANGED << gpkg_filename, gdf_stores, gdf_income, values,
                    gdf_stores_proj, gdf_income_proj, gdf_buffers, bufferedCrs,
                    joinCrs, joined, joined_columns, income_field, avg_income,
                    layers, saved, out, fetch >>

\* --------------------------------------------------- lines 110-131
\* What add_data receives: the layer's name, its rows and its geometry columns.
Layer(name, n, df) == [name |-> name, n |-> n, geoms |-> df.geoms, crs |-> df.crs]

\* gdf_stores_proj.to_crs(epsg=4326): every column of the table is kept.
StoresLayerFrame(df) == ToCrs(df, WGS84)

\* Lines 110-131: both add_data calls, then save_to_html, whose exception
\* is caught and printed.
Dashboard ==
    /\ pc = "dashboard"
    /\ layers' =
         (IF Len(high_income_buffers) > 0
          THEN << Layer("High Income Areas (3 mi)", Len(high_income_buffers),
                        ToCrs(gdf_buffers, WGS84)) >>
          ELSE << >>)
         \o << Layer("Dollar Stores", Cardinality(gdf_stores_proj.rows),
                     StoresLayerFrame(gdf_stores_proj)) >>
    /\ \E ok \in BOOLEAN :
         /\ saved' = ok
         /\ out' = IF ok THEN out ELSE Append(out, "Error saving dashboard")
    /\ pc' = "done"
    /\ UNCHANGED << gpkg_filename, gdf_stores, gdf_income, values,
                    gdf_stores_proj, gdf_income_proj, gdf_buffers, bufferedCrs,
                    joinCrs, joined, joined_columns, income_field, avg_income,
                    merged, high_income_buffers, fetch >>

Next ==
    \/ SelectFile
    \/ ReadFile
    \/ Download
    \/ EnsureCrs
    \/ Project
    \/ Buffer
    \/ SpatialJoin
    \/ SelectField
    \/ Aggregate
    \/ Filter
    \/ Dashboard

Spec == Init /\ [][Next]_vars

\* ================================================================ claims
Stages ==
    << "select_file", "read_file", "download", "ensure_crs", "project", "buffer",
       "sjoin", "select_field", "aggregate", "filter", "dashboard", "done" >>

\* The stages of main() after stage number n.
After(n) == { Stages[j] : j \in { k \in DOMAIN Stages : k > n } }

\* pc is past the named stage of main(): that stage has been executed.
PastEnsureCrs == After(4)
PastBuffer == After(6)
PastSjoin == After(7)
PastSelectField == After(8)
PastAggregate == After(9)
PastFilter == After(10)

\* The polygons whose geometry intersects buffer b.
Intersecting(b) == { p \in gdf_income_proj.rows : << p, b >> \in joined }

\* The row of the final buffer table for buffer b exists and P holds of it.
MeanOf(i) == merged[i].avg_median_income_3mi
CountOf(i) == merged[i].tract_count

\* C1: in the final buffer table no mean and no count is NaN, and a buffer
\* that no polygon intersects has mean 0 and count 0.
C1_ZeroMatchDefaults ==
    pc \in PastFilter =>
        \A i \in DOMAIN merged :
            /\ ~IsNaN(MeanOf(i))
            /\ ~IsNaN(CountOf(i))
            /\ Intersecting(merged[i].id) = {} =>
                   EqualsInt(MeanOf(i), 0) /\ EqualsInt(CountOf(i), 0)

\* C2: after the merge the buffer table has exactly one row per input buffer,
\* whatever the matches were.
C2_MergeTotal ==
    pc \in PastAggregate =>
        /\ Len(merged) = Cardinality(gdf_buffers.rows)
        /\ \A b \in gdf_buffers.rows :
               Cardinality({ i \in DOMAIN merged : merged[i].id = b }) = 1
        /\ \A i \in DOMAIN merged : merged[i].id \in gdf_buffers.rows

C2_Witness ==
    /\ pc = "filter"
    /\ Cardinality(gdf_buffers.rows) = 2
    /\ \E b \in gdf_buffers.rows : Intersecting(b) = {}
    /\ \E b \in gdf_buffers.rows : Intersecting(b) # {}
    /\ Len(merged) = 2

\* The aggregated column and the sum of its cells over the polygons of buffer b.
FieldColumn == joined_columns[ColumnOf(income_field, joined_columns)]

RECURSIVE SumOfCells(_, _)
SumOfCells(P, b) ==
    IF P = {} THEN 0
    ELSE LET p == CHOOSE x \in P : TRUE
         IN Cell(FieldColumn, p, b, values).num + SumOfCells(P \ {p}, b)

\* C3: the stats of every buffer are taken over all polygons intersecting it:
\* count is their number and mean is the arithmetic mean of their values.
C3_StatsOverAllIntersecting ==
    pc \in PastAggregate =>
        \A b \in gdf_buffers.rows :
            Intersecting(b) # {} =>
                \E r \in avg_income :
                    /\ r.index_right = b
                    /\ r.tract_count = Cardinality(Intersecting(b))
                    /\ (\A p \in Intersecting(b) : ~IsNaN(Cell(FieldColumn, p, b, values)))
                         => r.avg_median_income_3mi.num * Cardinality(Intersecting(b))
                            = SumOfCells(Intersecting(b), b) * r.avg_median_income_3mi.den

\* Thresholds the monotonicity of the filter is checked over.
Thresholds == {0, 80000, 100000, 120000}

Kept(i) == \E k \in DOMAIN high_income_buffers : high_income_buffers[k].id = merged[i].id

\* C4: the filter keeps exactly the buffers whose zero-filled mean is at least
\* the threshold; the set kept shrinks as the threshold grows; at 100000 a mean
\* of 100000 is kept and a mean of 80000 or a zero-match buffer is dropped.
C4_ThresholdFilter ==
    pc \in PastFilter =>
        /\ \A i \in DOMAIN merged :
               Kept(i) <=> (MeanOf(i).num >= Threshold * MeanOf(i).den)
        /\ \A k \in DOMAIN high_income_buffers :
               \E i \in DOMAIN merged : merged[i] = high_income_buffers[k]
        /\ \A t1, t2 \in Thresholds :
               t2 >= t1 => Range(HighIncome(merged, t2)) \subseteq Range(HighIncome(merged, t1))
        /\ Range(HighIncome(merged, Threshold)) = Range(high_income_buffers)
        /\ \A i \in DOMAIN merged :
               /\ EqualsInt(MeanOf(i), 100000) => Kept(i)
               /\ EqualsInt(MeanOf(i), 80000) => ~Kept(i)
               /\ Intersecting(merged[i].id) = {} => ~Kept(i)

C4_Witness ==
    /\ pc = "dashboard"
    /\ \E i \in DOMAIN merged : EqualsInt(MeanOf(i), 100000) /\ Kept(i)
    /\ \E i \in DOMAIN merged : EqualsInt(MeanOf(i), 80000) /\ ~Kept(i)

\* The candidates of the prioritized list that are columns of the joined table.
PresentCandidates ==
    { i \in DOMAIN possible_fields : InColumns(possible_fields[i], joined_columns) }

NumericPositions == { i \in DOMAIN joined_columns : joined_columns[i].dtype = "number" }

Reported == "Using field" \in Range(out)

\* C5: the field is the first present candidate of the prioritized list, and
\* then nothing is reported; with no candidate present it is the first numeric
\* column, and the choice is reported.
C5_FieldSelection ==
    pc \in PastSelectField =>
        IF PresentCandidates # {}
        THEN /\ \E i \in PresentCandidates :
                  /\ \A j \in PresentCandidates : i <= j
                  /\ income_field = [name |-> possible_fields[i], sfx |-> ""]
             /\ ~Reported
        ELSE /\ \E i \in NumericPositions :
                  /\ \A j \in NumericPositions : i <= j
                  /\ income_field = [name |-> joined_columns[i].name,
                                     sfx |-> joined_columns[i].sfx]
             /\ Reported

C5_Witness ==
    /\ pc = "aggregate"
    /\ PresentCandidates = {}
    /\ income_field.name = "OBJECTID"
    /\ Reported

\* C6: the field resolved for aggregation is a column of the polygon table,
\* never a column of the stores and never index_right.
C6_FieldFromPolygons ==
    pc \in PastSelectField =>
        /\ HasColumn(income_field, joined_columns)
        /\ FieldColumn.from = "income"

\* C7: every collection handed to add_data has exactly one geometry column.
C7_SingleGeometryColumn ==
    \A i \in DOMAIN layers : Cardinality(layers[i].geoms) = 1

\* C8: the buffer is applied to a collection tagged EPSG:3857 and the join
\* is run on two collections of the same CRS tag.
C8_CrsConsistency ==
    /\ pc \in PastBuffer => bufferedCrs = WebMercator
    /\ pc \in PastSjoin => joinCrs[1] = joinCrs[2] /\ joinCrs[1] # NoCrs

C8_Witness ==
    /\ pc = "select_field"
    /\ gdf_stores.coords = NoCrs
    /\ joined # {}
    /\ joinCrs = << WebMercator, WebMercator >>

FetchFailed == fetch \in {"transport_error", "http_error"}

\* C9: after a failed request no later stage runs: no buffering, no join, no
\* add_data, no export.
C9_FetchFailureAborts ==
    FetchFailed =>
        /\ pc = "returned"
        /\ bufferedCrs = NoCrs
        /\ gdf_buffers = Null
        /\ joinCrs = << NoCrs, NoCrs >>
        /\ layers = << >>
        /\ ~saved

C9_Witness ==
    /\ fetch = "http_error"
    /\ pc = "returned"
    /\ "Error downloading data" \in Range(out)

\* C10: a stores file without CRS is tagged EPSG:4326 and the run goes on (the
\* only exception raised is that of an empty download, never one of the CRS
\* step); a file with a CRS is transformed, its coordinates with the tag,
\* never only re-tagged.
C10_DefaultCrs ==
    /\ pc \in PastEnsureCrs =>
           /\ gdf_stores.crs = WGS84
           /\ gdf_stores.coords \in {NoCrs, WGS84}
    /\ pc = "raised" => gdf_income.geoms = {}

C10_Witness ==
    /\ pc = "done"
    /\ gdf_stores.crs = WGS84
    /\ gdf_stores.coords = NoCrs
    /\ saved

====
